---- MODULE Spec2Model ----
(***************************************************************************)
(* Model of the MatlabToCpp algorithm kernels (kalman_filter,              *)
(* low_pass_filter, pid_controller) and of the JSON-vector conformance     *)
(* harness that runs them (LoadTestVectors, the parameterized              *)
(* MatchesExpectedOutput tests and CppOutputWriter::TearDown).             *)
(*                                                                         *)
(* Numbers.  The kernels compute on C++ double.  The model computes on     *)
(* exact rationals <<n, d>> in lowest terms with d > 0, so every identity  *)
(* checked here is an identity of real arithmetic; a division by zero      *)
(* gives NonFinite, which stands for the IEEE results inf, -inf and NaN    *)
(* and is absorbing under +, -, * (no kernel divides by a computed         *)
(* non-finite value).                                                      *)
(***************************************************************************)
EXTENDS Integers, Sequences, FiniteSets, TLC

VARIABLES
    kf,        \* one call of kalman_filter: its arguments and output arrays
    lp,        \* one call of low_pass_filter: arguments, buffers, loop position
    pid,       \* one call of pid_controller: its arguments and output slots
    alg,       \* which of the three test executables is running
    dir,       \* the vector directory, in directory_iterator order
    pc,        \* position of the test executable
    cases,     \* the parameters registered by INSTANTIATE_TEST_SUITE_P
    next,      \* index of the next parameterized test to run
    log,       \* per executed test: what the test body compared and reported
    artifact,  \* content of OUTPUT_DIR/cpp_outputs.json on disk
    writes     \* how many times this run has opened the artifact for writing

vars == <<kf, lp, pid, alg, dir, pc, cases, next, log, artifact, writes>>

kernelVars == <<kf, lp, pid>>
harnessVars == <<alg, dir, pc, cases, next, log, artifact, writes>>

-----------------------------------------------------------------------------
(* Exact rational arithmetic standing for double arithmetic.               *)

Abs(x) == IF x < 0 THEN -x ELSE x

RECURSIVE GCD(_, _)
GCD(a, b) == IF b = 0 THEN a ELSE GCD(b, a % b)

NonFinite == <<0, 0>>

IsFinite(x) == x[2] # 0

Norm(n, d) ==
    IF d = 0 THEN NonFinite
    ELSE LET s == IF d < 0 THEN -1 ELSE 1
             g == GCD(Abs(n), Abs(d))
         IN  <<(s * n) \div g, (s * d) \div g>>

R(n) == <<n, 1>>

Q(n, d) == Norm(n, d)

RAdd(x, y) ==
    IF ~IsFinite(x) \/ ~IsFinite(y) THEN NonFinite
    ELSE LET g == GCD(x[2], y[2])
             l == (x[2] \div g) * y[2]
         IN  Norm(x[1] * (l \div x[2]) + y[1] * (l \div y[2]), l)

RNeg(x) == <<-x[1], x[2]>>

RSub(x, y) == RAdd(x, RNeg(y))

RMul(x, y) ==
    IF ~IsFinite(x) \/ ~IsFinite(y) THEN NonFinite
    ELSE LET g1 == GCD(Abs(x[1]), y[2])
             g2 == GCD(Abs(y[1]), x[2])
         IN  Norm((x[1] \div g1) * (y[1] \div g2), (x[2] \div g2) * (y[2] \div g1))

RDiv(x, y) ==
    IF ~IsFinite(x) \/ ~IsFinite(y) \/ y[1] = 0 THEN NonFinite
    ELSE RMul(x, Norm(y[2], y[1]))

RAbs(x) == <<Abs(x[1]), x[2]>>

\* x <= y for finite rationals
RLeq(x, y) == x[1] * y[2] <= y[1] * x[2]

-----------------------------------------------------------------------------
(* The kernels.                                                            *)

\* CovPredict with the state transition left out of the position variance
\* (P_pred[0][0] = P11 + Q, as if F were the identity).
CovPredictNoTransition(P11, P12, P21, P22, process_noise) ==
    [Pp11 |-> RAdd(P11, process_noise),
     Pp12 |-> RAdd(P12, P22),
     Pp21 |-> RAdd(P21, P22),
     Pp22 |-> RAdd(P22, process_noise)]

\* kalman_filter.cpp lines 32-35: P_pred = F * P * F' + Q, expanded.
CovPredict(P11, P12, P21, P22, process_noise) ==
    [Pp11 |-> RAdd(RAdd(RAdd(P11, P21), RAdd(P12, P22)), process_noise),
     Pp12 |-> RAdd(P12, P22),
     Pp21 |-> RAdd(P21, P22),
     Pp22 |-> RAdd(P22, process_noise)]

\* JosephUpdate with an index slip in line 75: K1*R*K1 added to P_up21.
JosephUpdateIndexSlip(Pp, K0, K1, measurement_noise) ==
    LET ikh00 == RSub(R(1), K0)
        ikh10 == RNeg(K1)
        A00 == RMul(ikh00, Pp.Pp11)
        A01 == RMul(ikh00, Pp.Pp12)
        A10 == RAdd(RMul(ikh10, Pp.Pp11), Pp.Pp21)
        A11 == RAdd(RMul(ikh10, Pp.Pp12), Pp.Pp22)
        P_up11 == RAdd(RMul(A00, ikh00), RMul(RMul(K0, measurement_noise), K0))
        P_up12 == RAdd(RAdd(RMul(A00, ikh10), A01), RMul(RMul(K0, measurement_noise), K1))
        P_up21 == RAdd(RMul(A10, ikh00), RMul(RMul(K1, measurement_noise), K1))
        P_up22 == RAdd(RAdd(RMul(A10, ikh10), A11), RMul(RMul(K1, measurement_noise), K1))
    IN  <<P_up11, P_up12, P_up21, P_up22>>

\* kalman_filter.cpp lines 56-76: the Joseph-form covariance update
\* (I - K*H) * P_pred * (I - K*H)' + K*R*K', expanded term by term.
JosephUpdate(Pp, K0, K1, measurement_noise) ==
    LET ikh00 == RSub(R(1), K0)
        ikh10 == RNeg(K1)
        A00 == RMul(ikh00, Pp.Pp11)
        A01 == RMul(ikh00, Pp.Pp12)
        A10 == RAdd(RMul(ikh10, Pp.Pp11), Pp.Pp21)
        A11 == RAdd(RMul(ikh10, Pp.Pp12), Pp.Pp22)
        P_up11 == RAdd(RMul(A00, ikh00), RMul(RMul(K0, measurement_noise), K0))
        P_up12 == RAdd(RAdd(RMul(A00, ikh10), A01), RMul(RMul(K0, measurement_noise), K1))
        P_up21 == RAdd(RMul(A10, ikh00), RMul(RMul(K1, measurement_noise), K0))
        P_up22 == RAdd(RAdd(RMul(A10, ikh10), A11), RMul(RMul(K1, measurement_noise), K1))
    IN  <<P_up11, P_up12, P_up21, P_up22>>

\* kalman_filter.cpp: one predict-update step; state and state_covariance
\* are the caller's arrays (2 and 4 elements); the result holds the two
\* output arrays and the local S.
kalman_filter(state, measurement, state_covariance, measurement_noise, process_noise) ==
    LET x_pred0 == RAdd(state[1], state[2])
        x_pred1 == state[2]
        Pp == CovPredict(state_covariance[1], state_covariance[2],
                         state_covariance[3], state_covariance[4], process_noise)
        y == RSub(measurement, x_pred0)
        S == RAdd(Pp.Pp11, measurement_noise)
        K0 == RDiv(Pp.Pp11, S)
        K1 == RDiv(Pp.Pp21, S)
    IN  [updated_state |-> <<RAdd(x_pred0, RMul(K0, y)), RAdd(x_pred1, RMul(K1, y))>>,
         updated_covariance |-> JosephUpdate(Pp, K0, K1, measurement_noise),
         S |-> S]

\* pid_controller with the integral term taken from the incoming integral
\* instead of the updated one.
pid_controller_stale_integral(error, integral, prev_error, kp, ki, kd, dt) ==
    LET new_integral == RAdd(integral, RMul(error, dt))
        derivative == RDiv(RSub(error, prev_error), dt)
    IN  [output |-> RAdd(RAdd(RMul(kp, error), RMul(ki, integral)), RMul(kd, derivative)),
         new_integral |-> new_integral,
         new_prev_error |-> error]

\* pid_controller.cpp: one control step.
pid_controller(error, integral, prev_error, kp, ki, kd, dt) ==
    LET new_integral == RAdd(integral, RMul(error, dt))
        derivative == RDiv(RSub(error, prev_error), dt)
    IN  [output |-> RAdd(RAdd(RMul(kp, error), RMul(ki, new_integral)), RMul(kd, derivative)),
         new_integral |-> new_integral,
         new_prev_error |-> error]

\* LowPassSample with the two weights exchanged.
LowPassSampleSwapped(input_signal, alpha, output_signal, k) ==
    RAdd(RMul(RSub(R(1), alpha), input_signal[k + 1]),
         RMul(alpha, output_signal[k]))

\* low_pass_filter.cpp line 16: the value the loop body stores in
\* output_signal[k] (k counted from 0 as in the source; sequences from 1).
LowPassSample(input_signal, alpha, output_signal, k) ==
    RAdd(RMul(alpha, input_signal[k + 1]),
         RMul(RSub(R(1), alpha), output_signal[k]))

\* low_pass_filter.cpp lines 15-17: the loop from index k to n - 1.
RECURSIVE LowPassLoop(_, _, _, _, _)
LowPassLoop(input_signal, alpha, n, output_signal, k) ==
    IF k < n
    THEN LowPassLoop(input_signal, alpha, n,
                     [output_signal EXCEPT ![k + 1] =
                          LowPassSample(input_signal, alpha, output_signal, k)],
                     k + 1)
    ELSE output_signal

\* low_pass_filter.cpp: the whole call, as the output buffer it leaves.
low_pass_filter(input_signal, alpha, n, output_signal) ==
    IF n <= 0 THEN output_signal
    ELSE LowPassLoop(input_signal, alpha, n,
                     [output_signal EXCEPT ![1] = input_signal[1]], 1)

-----------------------------------------------------------------------------
(* Bounds of the kernel specifications.                                    *)

MaxCov == 2      \* covariance entries range over -1 .. MaxCov
MaxNoise == 2    \* measurement_noise ranges over 0 .. MaxNoise
MaxMeas == 1     \* state entries and measurement range over 0 .. MaxMeas
MaxErr == 2      \* PID error, integral, prev_error range over -1 .. MaxErr
MaxLen == 3      \* low-pass signals have at most MaxLen samples
MaxSample == 3   \* low-pass samples range over 1 .. MaxSample

Zero == R(0)

\* The harness is idle while a kernel specification runs.
HarnessIdle ==
    /\ alg = "none" /\ dir = <<>> /\ pc = "kernel" /\ cases = <<>>
    /\ next = 0 /\ log = <<>> /\ artifact = <<>> /\ writes = 0

NoKalman == [pc |-> "unused"]
NoLowPass == [pc |-> "unused"]
NoPid == [pc |-> "unused"]

-----------------------------------------------------------------------------
(* KalmanSpec: one call of kalman_filter on inputs drawn from a grid and   *)
(* on the initial values of the sensor pipeline.                           *)

CovVals == {R(i) : i \in -1..MaxCov}
NoiseVals == {R(i) : i \in 0..MaxNoise}
MeasVals == {R(i) : i \in 0..MaxMeas}
ProcessNoiseVals == {Zero, Q(1, 10)}

\* main.cpp lines 57-60: the pipeline's initial estimate and noise levels.
PipelineCov == <<R(10), Zero, Zero, R(10)>>
PipelineState == <<Zero, Zero>>
PipelineR == R(2)
PipelineQ == Q(1, 10)

KalmanInputs ==
    [state : MeasVals \X MeasVals, measurement : MeasVals,
     state_covariance : CovVals \X CovVals \X CovVals \X CovVals,
     measurement_noise : NoiseVals, process_noise : ProcessNoiseVals]
    \cup
    [state : {PipelineState}, measurement : MeasVals,
     state_covariance : {PipelineCov},
     measurement_noise : {PipelineR}, process_noise : {PipelineQ}]

KalmanInit ==
    /\ \E in \in KalmanInputs :
          kf = [pc |-> "call", in |-> in,
                updated_state |-> <<Zero, Zero>>,
                updated_covariance |-> <<Zero, Zero, Zero, Zero>>,
                S |-> Zero]
    /\ lp = NoLowPass /\ pid = NoPid
    /\ HarnessIdle

KalmanCall ==
    /\ kf.pc = "call"
    /\ LET out == kalman_filter(kf.in.state, kf.in.measurement, kf.in.state_covariance,
                                kf.in.measurement_noise, kf.in.process_noise)
       IN  kf' = [kf EXCEPT !.pc = "done",
                            !.updated_state = out.updated_state,
                            !.updated_covariance = out.updated_covariance,
                            !.S = out.S]
    /\ UNCHANGED <<lp, pid, harnessVars>>

KalmanNext == KalmanCall

KalmanSpec == KalmanInit /\ [][KalmanNext]_vars

\* |x - y| <= eps for finite rationals
RNear(x, y, eps) == IsFinite(x) /\ IsFinite(y) /\ RLeq(RAbs(RSub(x, y)), eps)

\* The end-to-end scenario of the Kalman kernel: the pipeline's initial
\* state, covariance and noise levels with measurement 1.0.
KalmanScenario ==
    /\ kf.pc = "done"
    /\ kf.in.state = PipelineState
    /\ kf.in.measurement = R(1)
    /\ kf.in.state_covariance = PipelineCov
    /\ kf.in.measurement_noise = PipelineR
    /\ kf.in.process_noise = PipelineQ

\* C2 as stated: in the scenario S = 10.1 and updated_state[0] is within
\* 1e-3 of 0.8398.
C2_Original ==
    KalmanScenario =>
        /\ kf.S = Q(101, 10)
        /\ RNear(kf.updated_state[1], Q(8398, 10000), Q(1, 1000))

\* C2 amended: in the scenario the code computes P_pred[0][0] = 20.1, hence
\* S = 22.1, and returns updated_state[0] = 201/221, within 1e-3 of 0.9095.
C2_Amended ==
    KalmanScenario =>
        /\ kf.S = Q(221, 10)
        /\ kf.updated_state[1] = Q(201, 221)
        /\ RNear(kf.updated_state[1], Q(9095, 10000), Q(1, 1000))

C2_Witness == KalmanScenario

\* C3 as stated: for every input with S # 0 (any 4-element covariance) the
\* updated covariance is symmetric.
C3_Original ==
    (kf.pc = "done" /\ IsFinite(kf.S) /\ kf.S # Zero) =>
        kf.updated_covariance[2] = kf.updated_covariance[3]

\* C3 amended: for every input with S # 0 whose state_covariance is itself
\* symmetric (P12 = P21) the updated covariance is symmetric, in exact
\* arithmetic.
C3_Amended ==
    (/\ kf.pc = "done" /\ kf.S # Zero
     /\ kf.in.state_covariance[2] = kf.in.state_covariance[3]) =>
        kf.updated_covariance[2] = kf.updated_covariance[3]

\* A symmetric, non-diagonal input covariance with non-zero gain and noise,
\* updated to a symmetric covariance with non-zero off-diagonal entries.
C3_Witness ==
    /\ kf.pc = "done" /\ kf.S # Zero
    /\ kf.in.state_covariance[2] = kf.in.state_covariance[3]
    /\ kf.in.state_covariance[2] # Zero
    /\ kf.in.measurement_noise # Zero
    /\ kf.updated_covariance[2] = kf.updated_covariance[3]
    /\ kf.updated_covariance[2] # Zero

-----------------------------------------------------------------------------
(* PipelineSpec: the loop of the sensor pipeline (main.cpp lines 57-102),  *)
(* which feeds each step's updated_state and updated_covariance into the   *)
(* next call of kalman_filter and each step's integral and error into the  *)
(* next call of pid_controller.                                            *)

MaxSteps == 3          \* iterations of the loop (NUM_STEPS in the source)
MaxMagnitude == 400    \* largest numerator or denominator the loop carries on from

\* main.cpp lines 25 and 64.
DT == Q(1, 10)
PipelineKp == R(1)
PipelineKi == Q(1, 10)
PipelineKd == Q(1, 20)

\* Initial covariances: the pipeline's, and symmetric and asymmetric ones.
StartCovs ==
    {PipelineCov} \cup
    {<<a, b, c, d>> : a \in {R(1), R(MaxCov)}, b \in {Zero, R(1)},
                      c \in {Zero, R(1)}, d \in {R(1), R(MaxCov)}}

\* The values reference[i] takes (lines 45-48 compute it from a sine).
ReferenceVals == {Zero, R(1)}

Magnitude(x) == IF Abs(x[1]) > x[2] THEN Abs(x[1]) ELSE x[2]

\* The numbers the loop carries forward are small enough for the next
\* iteration to be computed exactly.
WithinRange ==
    /\ \A i \in 1..2 : Magnitude(kf.kf_state[i]) <= MaxMagnitude
    /\ \A i \in 1..4 : Magnitude(kf.kf_cov[i]) <= MaxMagnitude
    /\ Magnitude(pid.pid_integral) <= MaxMagnitude
    /\ Magnitude(pid.pid_prev_error) <= MaxMagnitude

\* lines 57-64: the state before the loop.  start_cov keeps the initial
\* covariance and nonsingular says that every S so far was finite and
\* nonzero.
PipelineInit ==
    /\ \E c \in StartCovs, r \in NoiseVals, q \in ProcessNoiseVals :
          kf = [pc |-> "pipeline", i |-> 0,
                kf_state |-> PipelineState, kf_cov |-> c,
                measurement_noise |-> r, process_noise |-> q,
                start_cov |-> c, nonsingular |-> TRUE]
    /\ pid = [pc |-> "pipeline", pid_integral |-> Zero, pid_prev_error |-> Zero,
              control_output |-> Zero]
    /\ lp = NoLowPass
    /\ HarnessIdle

\* lines 70-102: one iteration; filtered[i] and reference[i] are inputs.
PipelineStep ==
    /\ kf.pc = "pipeline" /\ kf.i < MaxSteps /\ WithinRange
    /\ \E filtered \in MeasVals, reference \in ReferenceVals :
          LET out == kalman_filter(kf.kf_state, filtered, kf.kf_cov,
                                   kf.measurement_noise, kf.process_noise)
              error == RSub(reference, out.updated_state[1])
              ctl == pid_controller(error, pid.pid_integral, pid.pid_prev_error,
                                    PipelineKp, PipelineKi, PipelineKd, DT)
          IN  /\ kf' = [kf EXCEPT !.i = kf.i + 1,
                                  !.kf_state = out.updated_state,
                                  !.kf_cov = out.updated_covariance,
                                  !.nonsingular = kf.nonsingular /\ IsFinite(out.S)
                                                  /\ out.S # Zero]
              /\ pid' = [pid EXCEPT !.pid_integral = ctl.new_integral,
                                    !.pid_prev_error = ctl.new_prev_error,
                                    !.control_output = ctl.output]
    /\ UNCHANGED <<lp, harnessVars>>

PipelineNext == PipelineStep

PipelineSpec == PipelineInit /\ [][PipelineNext]_vars

\* C14: when the loop starts from a symmetric covariance (the pipeline's
\* [10,0,0,10] among them) and no step so far had S = 0, the covariance it
\* carries is symmetric after every number of steps, whatever the
\* measurements were; the pipeline's own first step carries
\* [402/221, 200/221, 200/221, 12321/2210] into the second.
C14_SymmetryThreaded ==
    /\ (kf.pc = "pipeline" /\ kf.start_cov[2] = kf.start_cov[3] /\ kf.nonsingular) =>
          kf.kf_cov[2] = kf.kf_cov[3]
    /\ (kf.pc = "pipeline" /\ kf.i = 1 /\ kf.start_cov = PipelineCov
        /\ kf.measurement_noise = PipelineR /\ kf.process_noise = PipelineQ) =>
          kf.kf_cov = <<Q(402, 221), Q(200, 221), Q(200, 221), Q(12321, 2210)>>

\* Three steps have been threaded from a symmetric covariance with nonzero
\* correlation, none singular, and the covariance carried has nonzero
\* off-diagonal elements.
C14_Witness ==
    /\ kf.pc = "pipeline" /\ kf.i = 3 /\ kf.nonsingular
    /\ kf.start_cov[2] = kf.start_cov[3]
    /\ kf.start_cov[2] # Zero
    /\ kf.measurement_noise # Zero
    /\ kf.kf_cov[2] = kf.kf_cov[3]
    /\ kf.kf_cov[2] # Zero

-----------------------------------------------------------------------------
(* PidSpec: one call of pid_controller on inputs drawn from a grid.        *)

ErrVals == {R(i) : i \in -1..MaxErr}
GainVals == {Zero, R(1), Q(1, 2), Q(1, 10)}
\* 0.1 is the pipeline's DT (main.cpp line 25); 0 is the unguarded dt.
DtVals == {Zero, R(1), Q(1, 10)}

PidInputs ==
    [error : ErrVals, integral : ErrVals, prev_error : ErrVals,
     kp : GainVals, ki : GainVals, kd : GainVals, dt : DtVals]

PidInit ==
    /\ \E in \in PidInputs :
          pid = [pc |-> "call", in |-> in, output |-> Zero,
                 new_integral |-> Zero, new_prev_error |-> Zero]
    /\ kf = NoKalman /\ lp = NoLowPass
    /\ HarnessIdle

PidCall ==
    /\ pid.pc = "call"
    /\ LET out == pid_controller(pid.in.error, pid.in.integral, pid.in.prev_error,
                                 pid.in.kp, pid.in.ki, pid.in.kd, pid.in.dt)
       IN  pid' = [pid EXCEPT !.pc = "done",
                              !.output = out.output,
                              !.new_integral = out.new_integral,
                              !.new_prev_error = out.new_prev_error]
    /\ UNCHANGED <<kf, lp, harnessVars>>

PidNext == PidCall

PidSpec == PidInit /\ [][PidNext]_vars

PidScenario ==
    /\ pid.pc = "done"
    /\ pid.in = [error |-> R(2), integral |-> Zero, prev_error |-> R(1),
                 kp |-> R(1), ki |-> Q(1, 2), kd |-> Q(1, 10), dt |-> R(1)]

\* C5: for every call with dt # 0, new_prev_error = error, new_integral =
\* integral + error*dt and output = kp*error + ki*new_integral +
\* kd*(error - prev_error)/dt, the integral term using the updated integral;
\* the scenario gives new_integral = 2, output = 3.1, new_prev_error = 2.
C5_PidStep ==
    (pid.pc = "done" /\ pid.in.dt # Zero) =>
        LET in == pid.in
            updated == RAdd(in.integral, RMul(in.error, in.dt))
        IN  /\ pid.new_prev_error = in.error
            /\ pid.new_integral = updated
            /\ RSub(RSub(pid.output, RMul(in.kp, in.error)),
                    RDiv(RMul(in.kd, RSub(in.error, in.prev_error)), in.dt))
                 = RMul(in.ki, updated)
            /\ PidScenario =>
                  /\ pid.new_integral = R(2)
                  /\ pid.output = Q(31, 10)
                  /\ pid.new_prev_error = R(2)

\* A call with dt # 0 in which the updated integral differs from the
\* incoming one and the integral gain is non-zero, and the scenario itself.
C5_Witness ==
    /\ PidScenario
    /\ pid.in.ki # Zero
    /\ pid.new_integral # pid.in.integral

-----------------------------------------------------------------------------
(* LowPassSpec: one call of low_pass_filter, statement by statement.       *)

SampleVals == {R(i) : i \in 1..MaxSample}
\* 0.3 is the pipeline's alpha (main.cpp line 53).
AlphaVals == {Zero, Q(1, 2), Q(3, 10), R(1)}
\* What the caller's output buffer holds before the call.
PriorVals == {Zero, R(7)}

Signals == UNION {[1..m -> SampleVals] : m \in 0..MaxLen}

LowPassInit ==
    /\ \E x \in Signals, a \in AlphaVals, prior \in PriorVals :
       \E n \in {-1, 0} \cup {Len(x)} :
          lp = [pc |-> "entry", input_signal |-> x, alpha |-> a, n |-> n,
                output_signal |-> [i \in 1..Len(x) |-> prior],
                before |-> [i \in 1..Len(x) |-> prior],
                k |-> 0, stored |-> <<>>, loaded |-> <<>>]
    /\ kf = NoKalman /\ pid = NoPid
    /\ HarnessIdle

\* LowPassEntry with the guard n < 0 in place of n <= 0: a call with n = 0
\* on a non-empty buffer goes on to copy the first sample.
LowPassEntryZeroFallsThrough ==
    /\ lp.pc = "entry"
    /\ IF lp.n < 0 \/ lp.input_signal = <<>>
       THEN lp' = [lp EXCEPT !.pc = "done"]
       ELSE lp' = [lp EXCEPT !.pc = "loop", !.k = 1,
                             !.output_signal[1] = lp.input_signal[1],
                             !.stored = <<0>>, !.loaded = <<0>>]
    /\ UNCHANGED <<kf, pid, harnessVars>>

\* lines 11-13: the guard, and the first sample copied through.
LowPassEntry ==
    /\ lp.pc = "entry"
    /\ IF lp.n <= 0
       THEN lp' = [lp EXCEPT !.pc = "done"]
       ELSE lp' = [lp EXCEPT !.pc = "loop", !.k = 1,
                             !.output_signal[1] = lp.input_signal[1],
                             !.stored = <<0>>, !.loaded = <<0>>]
    /\ UNCHANGED <<kf, pid, harnessVars>>

\* lines 15-17: one iteration of the loop.
LowPassBody ==
    /\ lp.pc = "loop" /\ lp.k < lp.n
    /\ lp' = [lp EXCEPT !.output_signal[lp.k + 1] =
                            LowPassSample(lp.input_signal, lp.alpha, lp.output_signal, lp.k),
                        !.stored = Append(lp.stored, lp.k),
                        !.loaded = Append(lp.loaded, lp.k),
                        !.k = lp.k + 1]
    /\ UNCHANGED <<kf, pid, harnessVars>>

\* line 15 with k = n, line 18: the loop ends and the call returns.
LowPassReturn ==
    /\ lp.pc = "loop" /\ ~(lp.k < lp.n)
    /\ lp' = [lp EXCEPT !.pc = "done"]
    /\ UNCHANGED <<kf, pid, harnessVars>>

LowPassNext == LowPassEntry \/ LowPassBody \/ LowPassReturn

LowPassSpec == LowPassInit /\ [][LowPassNext]_vars

\* C4: a call on n >= 1 samples stores exactly the outputs 0 .. n-1, in
\* increasing order, with output[0] = input[0] and output[k] =
\* alpha*input[k] + (1-alpha)*output[k-1] for 1 <= k < n; input [1,2,3]
\* with alpha 0.5 gives [1, 1.5, 2.25].
C4_LowPassRecurrence ==
    (lp.pc = "done" /\ lp.n >= 1) =>
        LET x == lp.input_signal
            out == lp.output_signal
        IN  /\ lp.stored = [i \in 1..lp.n |-> i - 1]
            /\ Len(out) = lp.n
            /\ out[1] = x[1]
            /\ \A k \in 1..(lp.n - 1) :
                  out[k + 1] = RAdd(RMul(lp.alpha, x[k + 1]),
                                    RMul(RSub(R(1), lp.alpha), out[k]))
            /\ (x = <<R(1), R(2), R(3)>> /\ lp.alpha = Q(1, 2)) =>
                  out = <<R(1), Q(3, 2), Q(9, 4)>>
            /\ out = low_pass_filter(x, lp.alpha, lp.n, lp.before)

\* The scenario call [1,2,3], alpha 0.5 has returned, and so has a call
\* with another alpha on three samples.
C4_Witness ==
    /\ lp.pc = "done" /\ lp.n = 3
    /\ lp.input_signal = <<R(1), R(2), R(3)>>
    /\ lp.alpha = Q(1, 2)
    /\ lp.output_signal = <<R(1), Q(3, 2), Q(9, 4)>>

\* C13: a call with n <= 0 never enters the loop and returns having read
\* no element of input_signal and stored no element of output_signal: the
\* output buffer holds what it held before the call.
C13_NonPositiveLengthNoOp ==
    /\ lp.pc = "loop" => lp.n >= 1
    /\ (lp.pc = "done" /\ lp.n <= 0) =>
          /\ lp.loaded = <<>>
          /\ lp.stored = <<>>
          /\ lp.output_signal = lp.before
          /\ lp.output_signal =
                low_pass_filter(lp.input_signal, lp.alpha, lp.n, lp.before)

\* Calls with n = 0 and with n = -1 on buffers of three samples have
\* returned, the output buffer still holding the caller's 7s.
C13_Witness ==
    /\ lp.pc = "done" /\ lp.n <= 0
    /\ Len(lp.input_signal) = 3
    /\ lp.before = <<R(7), R(7), R(7)>>
    /\ lp.output_signal = lp.before

-----------------------------------------------------------------------------
(* The conformance harness: test_kalman_filter.cpp, test_low_pass_filter   *)
(* .cpp and test_pid_controller.cpp.  The three executables share one      *)
(* structure; alg says which one runs.                                     *)
(*                                                                         *)
(* A JSON object is a record whose DOMAIN is the set of keys it holds, so  *)
(* contains(key) is key \in DOMAIN obj.  A tolerance is [m, e], the double *)
(* m * 10^-e.                                                              *)

MaxDocs == 2     \* files in the vector directory
MaxCases == 2    \* test cases in the whole directory

Algorithms == {"kalman_filter", "low_pass_filter", "pid_controller"}

Tol(m, e) == [m |-> m, e |-> e]

\* LoadTestVectors line 74 (kalman), 70 (low-pass), 77 (pid): 1e-10.
DefaultToleranceExponent == 10
DefaultTolerance == Tol(1, DefaultToleranceExponent)

\* n * 10^e <= md, without forming 10^e
RECURSIVE LeqPow(_, _, _)
LeqPow(n, md, e) ==
    IF e = 0 THEN n <= md
    ELSE IF n > md THEN FALSE
    ELSE LeqPow(n * 10, md, e - 1)

\* gtest EXPECT_NEAR(val1, val2, abs_error): fabs(val1 - val2) <= abs_error.
\* The expected value comes from JSON and is finite; a non-finite actual
\* value is never near it.
EXPECT_NEAR(val1, val2, abs_error) ==
    /\ IsFinite(val1)
    /\ LET diff == RAbs(RSub(val1, val2))
       IN  LeqPow(diff[1], abs_error.m * diff[2], abs_error.e)

-----------------------------------------------------------------------------
(* The vector documents the directory may hold.                            *)

KalmanGoodInputs ==
    [state |-> PipelineState, measurement |-> R(1), state_covariance |-> PipelineCov,
     measurement_noise |-> PipelineR, process_noise |-> PipelineQ]

KalmanGoodCov == <<Q(402, 221), Q(200, 221), Q(200, 221), Q(12321, 2210)>>

\* name, inputs and expected_output of the Kalman cases: the golden vector;
\* an expectation off by 0.07; expected arrays longer and shorter than the
\* kernel's; a one-element state; a zero innovation covariance.
KalmanCases ==
    { [name |-> "golden", inputs |-> KalmanGoodInputs,
       expected_output |-> [updated_state |-> <<Q(201, 221), Q(100, 221)>>,
                            updated_covariance |-> KalmanGoodCov]],
      [name |-> "off", inputs |-> KalmanGoodInputs,
       expected_output |-> [updated_state |-> <<Q(8398, 10000), Q(100, 221)>>,
                            updated_covariance |-> KalmanGoodCov]],
      [name |-> "long_expected", inputs |-> KalmanGoodInputs,
       expected_output |-> [updated_state |-> <<Q(201, 221), Q(100, 221), Zero>>,
                            updated_covariance |-> KalmanGoodCov]],
      [name |-> "short_expected", inputs |-> KalmanGoodInputs,
       expected_output |-> [updated_state |-> <<Q(201, 221)>>,
                            updated_covariance |-> KalmanGoodCov]],
      [name |-> "short_state",
       inputs |-> [KalmanGoodInputs EXCEPT !.state = <<Zero>>],
       expected_output |-> [updated_state |-> <<Q(201, 221), Q(100, 221)>>,
                            updated_covariance |-> KalmanGoodCov]],
      [name |-> "degenerate",
       inputs |-> [state |-> <<Zero, Zero>>, measurement |-> R(1),
                   state_covariance |-> <<Zero, Zero, Zero, Zero>>,
                   measurement_noise |-> Zero, process_noise |-> Zero],
       expected_output |-> [updated_state |-> <<Zero, Zero>>,
                            updated_covariance |-> <<Zero, Zero, Zero, Zero>>]] }

\* The low-pass cases: the golden vector; an expectation off by 0.5; an
\* expected signal shorter and longer than the input; the empty signal.
LowPassCases ==
    { [name |-> "golden",
       inputs |-> [input_signal |-> <<R(1), R(2), R(3)>>, alpha |-> Q(1, 2)],
       expected_output |-> [output_signal |-> <<R(1), Q(3, 2), Q(9, 4)>>]],
      [name |-> "off",
       inputs |-> [input_signal |-> <<R(1), R(2)>>, alpha |-> Q(1, 2)],
       expected_output |-> [output_signal |-> <<R(1), R(2)>>]],
      [name |-> "short_expected",
       inputs |-> [input_signal |-> <<R(1), R(2)>>, alpha |-> Q(1, 2)],
       expected_output |-> [output_signal |-> <<R(1)>>]],
      [name |-> "long_expected",
       inputs |-> [input_signal |-> <<R(1)>>, alpha |-> R(1)],
       expected_output |-> [output_signal |-> <<R(1), R(5)>>]],
      [name |-> "empty",
       inputs |-> [input_signal |-> <<>>, alpha |-> Q(1, 2)],
       expected_output |-> [output_signal |-> <<>>]] }

PidGoodInputs ==
    [error |-> R(2), integral |-> Zero, prev_error |-> R(1),
     kp |-> R(1), ki |-> Q(1, 2), kd |-> Q(1, 10), dt |-> R(1)]

\* The PID cases: the golden vector; outputs off by 0.1 and by 0.5 in the
\* first and in the last field; a zero dt.
PidCases ==
    { [name |-> "golden", inputs |-> PidGoodInputs,
       expected_output |-> [output |-> Q(31, 10), new_integral |-> R(2),
                            new_prev_error |-> R(2)]],
      [name |-> "off", inputs |-> PidGoodInputs,
       expected_output |-> [output |-> R(3), new_integral |-> R(2),
                            new_prev_error |-> R(2)]],
      [name |-> "off_last", inputs |-> PidGoodInputs,
       expected_output |-> [output |-> Q(31, 10), new_integral |-> R(2),
                            new_prev_error |-> Q(5, 2)]],
      [name |-> "degenerate", inputs |-> [PidGoodInputs EXCEPT !.dt = Zero],
       expected_output |-> [output |-> Zero, new_integral |-> Zero,
                            new_prev_error |-> R(2)]] }

BaseCases(a) ==
    CASE a = "kalman_filter" -> KalmanCases
      [] a = "low_pass_filter" -> LowPassCases
      [] a = "pid_controller" -> PidCases

WithTolerance(tc, t) ==
    [k \in DOMAIN tc \cup {"tolerance"} |-> IF k = "tolerance" THEN t ELSE tc[k]]

Without(tc, key) == [k \in DOMAIN tc \ {key} |-> tc[k]]

\* The test_cases entries a document of algorithm a may hold: each base
\* case as it is; the golden case also with a per-case tolerance of 1e-3
\* and with a tolerance object that has no "absolute"; the off case also
\* with a per-case tolerance of 0.5; the golden case without its name and
\* without its expected_output.
JsonCases(a) ==
    LET golden == CHOOSE c \in BaseCases(a) : c.name = "golden"
        off == CHOOSE c \in BaseCases(a) : c.name = "off"
    IN  BaseCases(a)
        \cup {WithTolerance(golden, [absolute |-> Tol(1, 3)]),
              WithTolerance(golden, [relative |-> Tol(1, 3)]),
              WithTolerance(off, [absolute |-> Tol(5, 1)]),
              Without(golden, "name"),
              Without(golden, "expected_output")}

\* Top-level objects: without global_tolerance and with
\* global_tolerance.absolute = 1e-6 over every case list; with a
\* global_tolerance that has no "absolute" over the lists of at most one case.
JsonDocs(a, maxCases) ==
    LET lists == UNION {[1..m -> JsonCases(a)] : m \in 0..maxCases}
    IN  {[test_cases |-> l] : l \in lists}
        \cup {[global_tolerance |-> [absolute |-> Tol(1, 6)], test_cases |-> l] :
                 l \in lists}
        \cup {[global_tolerance |-> [relative |-> Tol(1, 6)], test_cases |-> l] :
                 l \in {m \in lists : Len(m) <= 1}}

\* A directory entry: its file name, whether it can be opened, whether its
\* text is well-formed JSON, and the object it parses to.
VectorFiles(a, maxCases) ==
    {[filename |-> "vectors.json", opens |-> TRUE, parses |-> TRUE, data |-> d] :
        d \in JsonDocs(a, maxCases)}

EmptyDoc == [test_cases |-> <<>>]

\* The reserved schema file, a file that is no .json file, a .json file
\* that cannot be opened and a .json file whose text is malformed.
OtherFiles ==
    { [filename |-> "schema.json", opens |-> TRUE, parses |-> TRUE, data |-> EmptyDoc],
      [filename |-> "README.md", opens |-> TRUE, parses |-> FALSE, data |-> EmptyDoc],
      [filename |-> "locked.json", opens |-> FALSE, parses |-> TRUE, data |-> EmptyDoc],
      [filename |-> "broken.json", opens |-> TRUE, parses |-> FALSE, data |-> EmptyDoc] }

\* path().extension() and path().filename() of an entry
Extension(filename) == IF filename = "README.md" THEN ".md" ELSE ".json"

CasesIn(file) == file.data.test_cases

\* The names of the cases of a directory, where a case has one.
RECURSIVE CaseNames(_)
CaseNames(d) ==
    IF d = <<>> THEN <<>>
    ELSE [i \in 1..Len(CasesIn(Head(d))) |->
             IF "name" \in DOMAIN CasesIn(Head(d))[i]
             THEN CasesIn(Head(d))[i].name ELSE "none"] \o CaseNames(Tail(d))

Distinct(seq) == \A i, j \in 1..Len(seq) : i # j => seq[i] # seq[j]

\* The vector file at position i of a directory is named after its position.
PositionName(i) == CASE i = 1 -> "a.json" [] i = 2 -> "b.json" [] OTHER -> "c.json"

Named(d) ==
    [i \in 1..Len(d) |->
        IF d[i].filename = "vectors.json"
        THEN [d[i] EXCEPT !.filename = PositionName(i)] ELSE d[i]]

\* The sequences of at most k of the given files that hold at most c
\* cases in all.
RECURSIVE FileSeqs(_, _, _)
FileSeqs(files, k, c) ==
    IF k = 0 THEN {<<>>}
    ELSE {<<>>} \cup
         UNION {{<<f>> \o d : d \in FileSeqs(files, k - 1, c - Len(CasesIn(f)))} :
                   f \in {e \in files : Len(CasesIn(e)) <= c}}

\* The directories, in directory_iterator order: at most MaxDocs files of
\* distinct names holding at most MaxCases cases in all, case names unique
\* within the run (the data model's requirement; gtest refuses to register
\* two parameters of one name).
Directories(a) ==
    {Named(d) : d \in {e \in FileSeqs(VectorFiles(a, MaxCases) \cup OtherFiles,
                                      MaxDocs, MaxCases) :
        /\ Distinct(CaseNames(e))
        /\ Distinct([i \in 1..Len(e) |-> Named(e)[i].filename])}}

-----
(* LoadTestVectors.                                                        *)

\* LoadTestVectors with the case's override ignored when the document has
\* a global tolerance (suite before case).
ResolveToleranceSuiteFirst(data, tc) ==
    IF "global_tolerance" \in DOMAIN data /\ "absolute" \in DOMAIN data.global_tolerance
    THEN data.global_tolerance.absolute
    ELSE IF "tolerance" \in DOMAIN tc /\ "absolute" \in DOMAIN tc.tolerance
         THEN tc.tolerance.absolute
         ELSE DefaultTolerance

\* test_kalman_filter.cpp lines 74-78 and 97-100: global_abs_tol is a local
\* of one document's iteration; the per-case value overrides it.
ResolveTolerance(data, tc) ==
    LET global_abs_tol ==
            IF "global_tolerance" \in DOMAIN data
               /\ "absolute" \in DOMAIN data.global_tolerance
            THEN data.global_tolerance.absolute
            ELSE DefaultTolerance
    IN  IF "tolerance" \in DOMAIN tc /\ "absolute" \in DOMAIN tc.tolerance
        THEN tc.tolerance.absolute
        ELSE global_abs_tol

RequiredKeys == {"name", "inputs", "expected_output"}

\* What reading a key the const object does not hold may yield when the
\* read does not end the process: an arbitrary value of the field's type
\* (one representative each).
GarbageName == "garbage"

GarbageExpected(a) ==
    CASE a = "kalman_filter" -> [updated_state |-> <<>>, updated_covariance |-> <<>>]
      [] a = "low_pass_filter" -> [output_signal |-> <<>>]
      [] a = "pid_controller" -> [output |-> R(7), new_integral |-> R(7),
                                  new_prev_error |-> R(7)]

GarbageInputs(a) ==
    CASE a = "kalman_filter" ->
             [state |-> <<>>, measurement |-> R(7), state_covariance |-> <<>>,
              measurement_noise |-> R(7), process_noise |-> R(7)]
      [] a = "low_pass_filter" -> [input_signal |-> <<>>, alpha |-> R(7)]
      [] a = "pid_controller" ->
             [error |-> R(7), integral |-> R(7), prev_error |-> R(7),
              kp |-> R(7), ki |-> R(7), kd |-> R(7), dt |-> R(7)]

\* Lines 81-102: one iteration of the test_cases loop, as the set of its
\* possible results.  tc["name"], tc["inputs"] and tc["expected_output"]
\* are unchecked reads of a const object: on a missing key the behaviour is
\* undefined (an assertion failure where assertions are compiled in), and
\* the read either ends the process or yields garbage.  file and index
\* record where the case came from; description is not used afterwards and
\* is left out.
ParseCase(a, data, tc, file, index) ==
    LET t == [name |-> IF "name" \in DOMAIN tc THEN tc.name ELSE GarbageName,
              inputs |-> IF "inputs" \in DOMAIN tc THEN tc.inputs ELSE GarbageInputs(a),
              expected |-> IF "expected_output" \in DOMAIN tc
                           THEN tc.expected_output ELSE GarbageExpected(a),
              abs_tolerance |-> ResolveTolerance(data, tc),
              file |-> file, index |-> index]
    IN  IF RequiredKeys \subseteq DOMAIN tc
        THEN {[aborted |-> FALSE, t |-> t]}
        ELSE {[aborted |-> TRUE], [aborted |-> FALSE, t |-> t]}

\* Lines 80-103: the loop over data["test_cases"] from index j on.
RECURSIVE LoadCases(_, _, _, _)
LoadCases(a, data, file, j) ==
    IF j > Len(data.test_cases) THEN {[aborted |-> FALSE, cases |-> <<>>]}
    ELSE UNION {
           IF o.aborted THEN {[aborted |-> TRUE, cases |-> <<>>]}
           ELSE {[aborted |-> r.aborted,
                  cases |-> IF r.aborted THEN <<>> ELSE <<o.t>> \o r.cases] :
                    r \in LoadCases(a, data, file, j + 1)} :
           o \in ParseCase(a, data, data.test_cases[j], file, j)}

\* Lines 65-103: one iteration of the directory loop.  json::parse throws
\* on malformed text and nothing catches it.
LoadFile(a, entry, file) ==
    IF Extension(entry.filename) # ".json" THEN {[aborted |-> FALSE, cases |-> <<>>]}
    ELSE IF entry.filename = "schema.json" THEN {[aborted |-> FALSE, cases |-> <<>>]}
    ELSE IF ~entry.opens THEN {[aborted |-> FALSE, cases |-> <<>>]}
    ELSE IF ~entry.parses THEN {[aborted |-> TRUE, cases |-> <<>>]}
    ELSE LoadCases(a, entry.data, file, 1)

\* Lines 61-107: the directory loop from entry i on.
RECURSIVE LoadFrom(_, _, _)
LoadFrom(a, d, i) ==
    IF i > Len(d) THEN {[aborted |-> FALSE, cases |-> <<>>]}
    ELSE UNION {
           IF o.aborted THEN {[aborted |-> TRUE, cases |-> <<>>]}
           ELSE {[aborted |-> r.aborted,
                  cases |-> IF r.aborted THEN <<>> ELSE o.cases \o r.cases] :
                    r \in LoadFrom(a, d, i + 1)} :
           o \in LoadFile(a, d[i], i)}

\* LoadTestVectors(dir): the possible results of one call.
LoadTestVectors(a, d) == LoadFrom(a, d, 1)


-----------------------------------------------------------------------------
(* The parameterized test MatchesExpectedOutput.                           *)

\* What an out-of-bounds read of a double may yield when it does not end
\* the process.
GarbageVals == {Zero, R(7)}

\* seq[i] (i counted from 1), or the garbage g behind the end of seq
Rd(seq, i, g) == IF i <= Len(seq) THEN seq[i] ELSE g

\* test_kalman_filter.cpp lines 117-119 and 176-178: tc.state[0..1] and
\* tc.state_covariance[0..3] are read without a size check.
InputOutOfBounds(a, tc) ==
    /\ a = "kalman_filter"
    /\ \/ Len(tc.inputs.state) < 2
       \/ Len(tc.inputs.state_covariance) < 4

\* The kernel call of the test body and of TearDown (kalman lines 117-130
\* and 176-184, low-pass 107-114 and 140-144, pid 123-131 and 158-165): the
\* output slots start at 0.0 and the kernel fills them.
Invoke(a, tc, g) ==
    CASE a = "kalman_filter" ->
             LET state == [i \in 1..2 |-> Rd(tc.inputs.state, i, g)]
                 cov == [i \in 1..4 |-> Rd(tc.inputs.state_covariance, i, g)]
                 out == kalman_filter(state, tc.inputs.measurement, cov,
                                      tc.inputs.measurement_noise,
                                      tc.inputs.process_noise)
             IN  [updated_state |-> out.updated_state,
                  updated_covariance |-> out.updated_covariance]
      [] a = "low_pass_filter" ->
             LET n == Len(tc.inputs.input_signal)
             IN  [output_signal |->
                     low_pass_filter(tc.inputs.input_signal, tc.inputs.alpha, n,
                                     [i \in 1..n |-> Zero])]
      [] a = "pid_controller" ->
             pid_controller(tc.inputs.error, tc.inputs.integral, tc.inputs.prev_error,
                            tc.inputs.kp, tc.inputs.ki, tc.inputs.kd, tc.inputs.dt)

\* One EXPECT_NEAR of a validation loop: the field, the index i (from 0),
\* whether actual[i] or expected[i] lies outside its array, and otherwise
\* whether the two are near.
ArrayCheck(field, actual, expected, i, tol) ==
    [field |-> field, i |-> i,
     oob |-> i >= Len(actual) \/ i >= Len(expected),
     near |-> IF i >= Len(actual) \/ i >= Len(expected) THEN FALSE
              ELSE EXPECT_NEAR(actual[i + 1], expected[i + 1], tol)]

ScalarCheck(field, actual, expected, tol) ==
    [field |-> field, i |-> 0, oob |-> FALSE, near |-> EXPECT_NEAR(actual, expected, tol)]

\* The EXPECT_NEAR sequence of the test body.  kalman lines 133-144: two
\* loops bounded by the expected arrays' sizes over the 2- and 4-element
\* output arrays.  low-pass lines 117-121: one loop bounded by the input
\* length n over the n-element output vector.  pid lines 134-139.
Checks(a, tc, out) ==
    CASE a = "kalman_filter" ->
             [k \in 1..Len(tc.expected.updated_state) |->
                 ArrayCheck("updated_state", out.updated_state,
                            tc.expected.updated_state, k - 1, tc.abs_tolerance)]
             \o
             [k \in 1..Len(tc.expected.updated_covariance) |->
                 ArrayCheck("updated_covariance", out.updated_covariance,
                            tc.expected.updated_covariance, k - 1, tc.abs_tolerance)]
      [] a = "low_pass_filter" ->
             [k \in 1..Len(tc.inputs.input_signal) |->
                 ArrayCheck("output_signal", out.output_signal,
                            tc.expected.output_signal, k - 1, tc.abs_tolerance)]
      [] a = "pid_controller" ->
             << ScalarCheck("output", out.output, tc.expected.output, tc.abs_tolerance),
                ScalarCheck("new_integral", out.new_integral,
                            tc.expected.new_integral, tc.abs_tolerance),
                ScalarCheck("new_prev_error", out.new_prev_error,
                            tc.expected.new_prev_error, tc.abs_tolerance) >>

\* Validate with fatal assertions: the test body returns at the first
\* assertion that fails.
RECURSIVE ValidateFatal(_, _, _)
ValidateFatal(checks, k, failing) ==
    IF k > Len(checks) THEN <<>>
    ELSE IF k \in failing THEN <<checks[k]>>
    ELSE <<checks[k]>> \o ValidateFatal(checks, k + 1, failing)

\* The validation loops: EXPECT_NEAR records a failure and returns, so the
\* loop goes on to the next index whatever the set `failing` of failed
\* assertions.  The result is the sequence of assertions evaluated.
RECURSIVE Validate(_, _, _)
Validate(checks, k, failing) ==
    IF k > Len(checks) THEN <<>>
    ELSE <<checks[k]>> \o Validate(checks, k + 1, failing)

\* What gtest keeps of one test body: the case, the kernel's outputs, the
\* assertions evaluated (done, out of checks) and which of them failed.
LogEntry(tc, out, checks, done, failing) ==
    [name |-> tc.name,
     actual |-> out,
     compared |-> [k \in 1..Len(done) |-> <<done[k].field, done[k].i>>],
     failed |-> {<<checks[k].field, checks[k].i>> : k \in failing \cap 1..Len(done)},
     oob |-> {<<checks[k].field, checks[k].i>> :
                 k \in {j \in 1..Len(done) : checks[j].oob}}]

\* The assertions that fail: those on garbage listed in garbageFails and
\* those in bounds whose values are not near.
Failing(checks, garbageFails) ==
    {k \in DOMAIN checks :
        IF checks[k].oob THEN k \in garbageFails ELSE ~checks[k].near}

Validated(tc, out, checks, failing) ==
    LogEntry(tc, out, checks, Validate(checks, 1, failing), failing)

Checked(tc, out, checks, garbageFails) ==
    Validated(tc, out, checks, Failing(checks, garbageFails))

Invoked(a, tc, out, garbageFails) ==
    Checked(tc, out, Checks(a, tc, out), garbageFails)

\* The result of one test body in which the reads outside the input arrays
\* yield g and the assertions on garbage listed in garbageFails fail:
\* the kernel call, the validation loops, the log entry.
TestEntry(a, tc, g, garbageFails) ==
    Invoked(a, tc, Invoke(a, tc, g), garbageFails)

\* The assertions of the test body that read outside an array (which ones
\* do depends on the sizes alone).
GarbageChecks(a, tc) ==
    LET checks == Checks(a, tc, Invoke(a, tc, Zero))
    IN  {k \in DOMAIN checks : checks[k].oob}

\* The possible results of one test body.  A read outside an array is
\* undefined behaviour: it ends the process, or yields garbage, and an
\* assertion on garbage passes or fails.
TestBody(a, tc) ==
    LET inputs == InputOutOfBounds(a, tc)
        garbage == GarbageChecks(a, tc)
    IN  (IF inputs \/ garbage # {} THEN {[crashed |-> TRUE]} ELSE {})
        \cup {[crashed |-> FALSE, entry |-> TestEntry(a, tc, g, f)] :
                 g \in (IF inputs THEN GarbageVals ELSE {Zero}),
                 f \in SUBSET garbage}

-----
(* CppOutputWriter::TearDown.                                              *)

JsonNull == <<0, -1>>

\* json::dump of a number: a finite double is written so that it reads
\* back as itself; inf, -inf and NaN are written as null.
DumpNumber(x) == IF IsFinite(x) THEN x ELSE JsonNull

DumpArray(xs) == [i \in 1..Len(xs) |-> DumpNumber(xs[i])]

\* kalman lines 186-192, low-pass 146-150, pid 167-173: one result object.
ResultObject(a, tc, out) ==
    CASE a = "kalman_filter" ->
             [test_name |-> tc.name,
              actual_updated_state |-> DumpArray(out.updated_state),
              actual_updated_covariance |-> DumpArray(out.updated_covariance),
              tolerance |-> tc.abs_tolerance]
      [] a = "low_pass_filter" ->
             [test_name |-> tc.name,
              actual_output_signal |-> DumpArray(out.output_signal),
              tolerance |-> tc.abs_tolerance]
      [] a = "pid_controller" ->
             [test_name |-> tc.name,
              actual_output |-> DumpNumber(out.output),
              actual_new_integral |-> DumpNumber(out.new_integral),
              actual_new_prev_error |-> DumpNumber(out.new_prev_error),
              tolerance |-> tc.abs_tolerance]

\* Lines 175-193: the loop over the reloaded cases; g is what the reads
\* outside tc.state and tc.state_covariance yield.
Outputs(a, reloaded, g) ==
    [i \in 1..Len(reloaded) |-> ResultObject(a, reloaded[i], Invoke(a, reloaded[i], g))]

Absent == [state |-> "absent", records |-> <<>>]

\* An artifact left by an earlier run of the same executable.
Stale(a) ==
    LET golden == CHOOSE c \in BaseCases(a) : c.name = "golden"
        tc == [name |-> "earlier", inputs |-> golden.inputs,
               abs_tolerance |-> DefaultTolerance]
    IN  [state |-> "complete",
         records |-> <<ResultObject(a, tc, Invoke(a, tc, Zero))>>]

\* What the file system does to lines 196-199: everything succeeds;
\* create_directories throws; the ofstream fails to open; the stream opens
\* (truncating the file) and the write stops short.
FsOutcomes == {"ok", "mkdir_throws", "open_fails", "short_write"}

-----------------------------------------------------------------------------
(* Spec: one run of a test executable.                                     *)

Init ==
    /\ alg \in Algorithms
    /\ dir \in Directories(alg)
    /\ pc = "init"
    /\ cases = <<>>
    /\ next = 0
    /\ log = <<>>
    /\ artifact \in {Absent, Stale(alg)}
    /\ writes = 0
    /\ kf = NoKalman /\ lp = NoLowPass /\ pid = NoPid

\* INSTANTIATE_TEST_SUITE_P: ValuesIn(LoadTestVectors(TEST_VECTORS_DIR)) is
\* evaluated when gtest registers the parameterized tests, before any test
\* runs; an exception or a crash there ends the process.
Register ==
    /\ pc = "init"
    /\ \E o \in LoadTestVectors(alg, dir) :
          IF o.aborted
          THEN pc' = "aborted" /\ UNCHANGED <<cases, next>>
          ELSE pc' = "tests" /\ cases' = o.cases /\ next' = 1
    /\ UNCHANGED <<alg, dir, log, artifact, writes, kernelVars>>

\* TEST_P(..., MatchesExpectedOutput) on the next parameter.
RunCase ==
    /\ pc = "tests" /\ next <= Len(cases)
    /\ \E o \in TestBody(alg, cases[next]) :
          IF o.crashed
          THEN pc' = "aborted" /\ UNCHANGED <<next, log>>
          ELSE pc' = pc /\ next' = next + 1 /\ log' = Append(log, o.entry)
    /\ UNCHANGED <<alg, dir, cases, artifact, writes, kernelVars>>

\* The run's exit status: a failed assertion or a failure reported in
\* TearDown fails it; with no parameter at all the status depends on the
\* gtest version (newer ones fail an instantiation without parameters).
ExitStatus(threw) ==
    IF threw \/ \E k \in DOMAIN log : log[k].failed # {}
    THEN {"exit_fail"}
    ELSE IF cases = <<>> THEN {"exit_ok", "exit_fail"} ELSE {"exit_ok"}

\* CppOutputWriter::TearDown, run by gtest once after the last test whether
\* or not a test failed, and the end of the process.
TearDown ==
    /\ pc = "tests" /\ next > Len(cases)
    /\ \E lo \in LoadTestVectors(alg, dir) :
          IF lo.aborted
          THEN pc' = "aborted" /\ UNCHANGED <<artifact, writes>>
          ELSE LET ub == \E i \in DOMAIN lo.cases : InputOutOfBounds(alg, lo.cases[i])
               IN  \E g \in (IF ub THEN GarbageVals ELSE {Zero}),
                      fs \in FsOutcomes \cup (IF ub THEN {"crash"} ELSE {}) :
                      IF fs = "crash"
                      THEN pc' = "aborted" /\ UNCHANGED <<artifact, writes>>
                      ELSE /\ pc' \in ExitStatus(fs = "mkdir_throws")
                           /\ artifact' =
                                 CASE fs = "ok" ->
                                          [state |-> "complete",
                                           records |-> Outputs(alg, lo.cases, g)]
                                   [] fs = "short_write" ->
                                          [state |-> "truncated", records |-> <<>>]
                                   [] OTHER -> artifact
                           /\ writes' = IF fs \in {"ok", "short_write"}
                                        THEN writes + 1 ELSE writes
    /\ UNCHANGED <<alg, dir, cases, next, log, kernelVars>>

Next == Register \/ RunCase \/ TearDown

Spec == Init /\ [][Next]_vars

-----------------------------------------------------------------------------
(* Properties of the harness.                                              *)

Finished == pc \in {"exit_ok", "exit_fail"}

\* The JSON object a loaded case was parsed from, and its document.
SourceDoc(t) == dir[t.file].data
SourceCase(t) == SourceDoc(t).test_cases[t.index]

HasAbsolute(obj, key) == key \in DOMAIN obj /\ "absolute" \in DOMAIN obj[key]

\* C1: every loaded case's tolerance is its own tolerance.absolute when it
\* has one, otherwise the global_tolerance.absolute of the document it came
\* from when that document has one, otherwise 1e-10.
C1_ToleranceResolution ==
    \A i \in DOMAIN cases :
        LET t == cases[i]
        IN  t.abs_tolerance =
                IF HasAbsolute(SourceCase(t), "tolerance")
                THEN SourceCase(t).tolerance.absolute
                ELSE IF HasAbsolute(SourceDoc(t), "global_tolerance")
                     THEN SourceDoc(t).global_tolerance.absolute
                     ELSE Tol(1, 10)

\* Two documents are loaded: the first has a global tolerance of 1e-6 and a
\* case overriding it with 1e-3, the second has no global tolerance and a
\* case without override, which resolves to 1e-10.
C1_Witness ==
    /\ pc = "tests" /\ Len(cases) = 2
    /\ cases[1].file # cases[2].file
    /\ HasAbsolute(SourceDoc(cases[1]), "global_tolerance")
    /\ HasAbsolute(SourceCase(cases[1]), "tolerance")
    /\ cases[1].abs_tolerance = Tol(1, 3)
    /\ ~HasAbsolute(SourceDoc(cases[2]), "global_tolerance")
    /\ ~HasAbsolute(SourceCase(cases[2]), "tolerance")
    /\ cases[2].abs_tolerance = Tol(1, 10)

\* The number of assertions the test body's loops are bound to evaluate.
LoopBound(a, t) ==
    CASE a = "kalman_filter" ->
             Len(t.expected.updated_state) + Len(t.expected.updated_covariance)
      [] a = "low_pass_filter" -> Len(t.inputs.input_signal)
      [] a = "pid_controller" -> 3

\* C6: failed assertions are recorded and stop nothing: the tests run are
\* the loaded cases in order, one execution each; every execution evaluates
\* all the assertions of its loops whether or not some failed; and a run
\* that finishes has executed every loaded case.
C6_FailuresDoNotHalt ==
    /\ Len(log) <= Len(cases)
    /\ \A k \in DOMAIN log :
          /\ log[k].name = cases[k].name
          /\ Len(log[k].compared) = LoopBound(alg, cases[k])
    /\ Finished => Len(log) = Len(cases)

\* A finished run of two cases whose first case failed an assertion that
\* is not the last of its test body, and whose second case passed.
C6_Witness ==
    /\ Finished /\ Len(log) = 2
    /\ log[1].failed # {}
    /\ \E k \in 1..(Len(log[1].compared) - 1) : log[1].compared[k] \in log[1].failed
    /\ Len(log[1].compared) = LoopBound(alg, cases[1])
    /\ log[2].failed = {}
    /\ log[2].compared # <<>>

\* The elements of the expected output fields of a case.
ExpectedElements(a, t) ==
    CASE a = "kalman_filter" ->
             {<<"updated_state", i>> : i \in 0..(Len(t.expected.updated_state) - 1)}
             \cup {<<"updated_covariance", i>> :
                      i \in 0..(Len(t.expected.updated_covariance) - 1)}
      [] a = "low_pass_filter" ->
             {<<"output_signal", i>> : i \in 0..(Len(t.expected.output_signal) - 1)}
      [] a = "pid_controller" ->
             {<<"output", 0>>, <<"new_integral", 0>>, <<"new_prev_error", 0>>}

SeqRange(seq) == {seq[k] : k \in DOMAIN seq}

\* C7 as stated: every executed case has every element of every expected
\* field compared, no comparison reads outside the actual or expected
\* arrays, and no test body is ended by such a read.
C7_Original ==
    /\ \A k \in DOMAIN log :
          /\ ExpectedElements(alg, cases[k]) \subseteq SeqRange(log[k].compared)
          /\ log[k].oob = {}
    /\ (pc = "aborted" /\ cases # <<>> /\ Len(log) < Len(cases)) =>
          GarbageChecks(alg, cases[Len(log) + 1]) = {}

\* C8 as stated: the artifact a run has written holds one record per case
\* of the conformance pass, in that order, each with the case's name, the
\* kernel's outputs for the case's inputs and the case's resolved tolerance.
C8_Original ==
    (Finished /\ writes > 0 /\ artifact.state = "complete") =>
        /\ Len(artifact.records) = Len(cases)
        /\ \A i \in DOMAIN artifact.records :
              LET rec == artifact.records[i]
                  t == cases[i]
                  out == Invoke(alg, t, Zero)
              IN  /\ rec.test_name = t.name
                  /\ rec.tolerance = t.abs_tolerance
                  /\ ~InputOutOfBounds(alg, t)
                  /\ CASE alg = "kalman_filter" ->
                              /\ rec.actual_updated_state = out.updated_state
                              /\ rec.actual_updated_covariance = out.updated_covariance
                       [] alg = "low_pass_filter" ->
                              rec.actual_output_signal = out.output_signal
                       [] alg = "pid_controller" ->
                              /\ rec.actual_output = out.output
                              /\ rec.actual_new_integral = out.new_integral
                              /\ rec.actual_new_prev_error = out.new_prev_error

\* C9 as stated: the exporter writes only after every case has run; every
\* run comes to write the artifact exactly once; and when the run is over
\* the artifact is complete and holds no record of an earlier run.
C9_Original ==
    /\ writes > 0 => Len(log) = Len(cases)
    /\ (Finished \/ pc = "aborted") =>
          /\ writes = 1
          /\ artifact.state = "complete"
          /\ \A i \in DOMAIN artifact.records :
                artifact.records[i].test_name # "earlier"

\* A directory entry LoadTestVectors is meant to load: a .json file other
\* than schema.json that opens, parses and whose cases hold every required
\* field.
WellFormed(entry) ==
    /\ Extension(entry.filename) = ".json" /\ entry.filename # "schema.json"
    /\ entry.opens /\ entry.parses
    /\ \A j \in DOMAIN entry.data.test_cases :
          RequiredKeys \subseteq DOMAIN entry.data.test_cases[j]

\* C10 as stated: once the vectors have been loaded, every case of every
\* well-formed document is among the loaded cases whatever the other
\* documents hold, a finished run has executed them, and no loaded case
\* lacks a required field.
C10_Original ==
    pc # "init" =>
        /\ \A f \in DOMAIN dir :
              WellFormed(dir[f]) =>
                 \A j \in DOMAIN dir[f].data.test_cases :
                    \E i \in DOMAIN cases : cases[i].file = f /\ cases[i].index = j
        /\ \A i \in DOMAIN cases : RequiredKeys \subseteq DOMAIN SourceCase(cases[i])
        /\ Finished => Len(log) = Len(cases)

\* The fixed arity of the Kalman kernel's array inputs.
KalmanArity(t) ==
    /\ Len(t.inputs.state) = 2
    /\ Len(t.inputs.state_covariance) = 4

\* C11 as stated: a Kalman case whose state or covariance has the wrong
\* number of elements is rejected before the kernel is called: no test
\* body has run on it, no run was ended by reading outside its vectors,
\* and no record of the artifact this run wrote comes from it.
C11_Original ==
    alg = "kalman_filter" =>
        /\ \A k \in DOMAIN log : KalmanArity(cases[k])
        /\ (pc = "aborted" /\ Len(log) < Len(cases)) =>
              KalmanArity(cases[Len(log) + 1])
        /\ (writes > 0 /\ artifact.state = "complete") =>
              \A i \in DOMAIN cases :
                 ~KalmanArity(cases[i]) =>
                    \A r \in DOMAIN artifact.records :
                       artifact.records[r].test_name # cases[i].name

\* C12 as stated: a run reports success only when it has written the
\* whole artifact; a run whose output file could not be opened or written
\* ends failed.
C12_Original ==
    pc = "exit_ok" => /\ writes = 1
                      /\ artifact.state = "complete"

====
